---- MODULE Spec2Model ----
(***************************************************************************)
(* A model of pico-args (src/src/lib.rs): the argument store               *)
(* `Arguments(Vec<OsString>)` and its extraction operations.               *)
(*                                                                         *)
(* Conventions.                                                            *)
(*  - A token (OsString) is a sequence of one-character strings; the       *)
(*    character BAD stands for a byte sequence that is not valid UTF-8,    *)
(*    so `to_str()` is None exactly for the tokens that contain BAD.       *)
(*  - A &'static str key is a sequence of characters too; Keys is the      *)
(*    pair <<first, second>>, second = <<>> for a single alias.            *)
(*  - Rust indices are 0-based; the operators below keep Rust's `start`    *)
(*    and `end` of a byte range and translate at the access (Get, Slice).  *)
(*    Positions in the store are the 1-based TLA+ positions (Rust idx+1).  *)
(*  - The eq-separator feature (default) is enabled.                       *)
(***************************************************************************)
EXTENDS Integers, Sequences, FiniteSets, TLC

VARIABLES args, alive, last

vars == <<args, alive, last>>

(* ---------------------------- bounds ----------------------------------- *)

\* longest initial argument list
MaxLen == 3

(* ---------------------------- text ------------------------------------- *)

BAD == "\\xFF"

Dash == "-"
Eq == "="
SQuote == "'"
DQuote == "\""

\* Option<&str> of OsStr::to_str: Some iff the bytes are valid UTF-8
IsUtf8(t) == \A i \in 1..Len(t) : t[i] # BAD

\* <[u8]>::get(j) with a 0-based index j: Some(s[j]) iff j < len
HasByte(s, j) == j >= 0 /\ j < Len(s)
Get(s, j) == s[j + 1]

\* &s[a..b] with 0-based a, exclusive b
Slice(s, a, b) == SubSeq(s, a + 1, b)

\* str::starts_with(prefix)
StartsWith(s, p) == Len(s) >= Len(p) /\ SubSeq(s, 1, Len(p)) = p

\* Vec::remove(idx) at the 1-based position i
Remove(v, i) == SubSeq(v, 1, i - 1) \o SubSeq(v, i + 1, Len(v))

\* Iterator::position over the outcomes hit[i] of the predicate on each element:
\* the first (1-based) position where it holds, 0 for None
Position(hit) ==
    IF \E i \in 1..Len(hit) : hit[i]
    THEN CHOOSE i \in 1..Len(hit) : hit[i] /\ \A j \in 1..(i - 1) : ~hit[j]
    ELSE 0

(* ---------------------------- tokens of the model ---------------------- *)

E == <<>>
W == <<"-", "w">>
WW == <<"-", "-", "w">>
H == <<"-", "h">>

\* the aliases and the plain values
CoreTokens == { W, WW, <<"1">>, <<"a">> }

\* another flag, the stdin sign, inline tokens (plain, quoted, malformed, look-alike),
\* the empty token and tokens that are not valid UTF-8
EdgeTokens ==
    { H,
      <<"-">>,
      <<"-", "w", "=", "1">>,
      <<"-", "-", "w", "=", "a">>,
      <<"-", "w", "=", "'", "1", "'">>,
      <<"-", "-", "w", "=", "\"", "a", "\"">>,
      <<"-", "w", "=">>,
      <<"-", "w", "=", "'">>,
      <<"-", "w", "=", "'", "'">>,
      <<"-", "w", "=", "'", "\"">>,
      <<"-", "w", "=", "'", "1", "\"">>,
      <<"-", "w", "=", "\"", "1", "\"", "'">>,
      <<"-", "w", "-", "1">>,
      <<"-", "-", "w", "a", "=", "1">>,
      <<"=", "1">>,
      <<>>,
      <<BAD>>,
      <<"-", "w", "=", BAD>> }

Tokens == CoreTokens \cup EdgeTokens

\* argument lists with two edge tokens, after tests/tests.rs (eq_option_04,
\* eq_option_err_06, duplicated_options_01, unused_args_01) and their variations
Scenarios ==
    { << <<"-", "-", "w", "a", "=", "1">>, <<"-", "-", "w", "=", "a">> >>,
      << <<"-", "w", "-", "1">>, <<"-", "w", "=", "1">> >>,
      << <<"-", "-", "w", "=", "a">>, <<"-", "w", "=", "1">> >>,
      << <<"-", "w", "=", BAD>>, <<"-", "w", "=", "1">> >>,
      << <<"-", "w", "=", "1">>, <<"-", "w", "=", "'", "1", "'">> >>,
      << H, <<"a">>, <<"-">> >>,
      << WW, <<"1">>, W, <<"a">> >> }

\* Arguments::from_vec takes any list: those of length at most MaxLen with at
\* most one edge token, and the scenarios
ArgLists ==
    Scenarios \cup
    UNION { { s \in [1..n -> Tokens] :
                Cardinality({ i \in 1..n : s[i] \in EdgeTokens }) <= 1 } : n \in 0..MaxLen }

\* key specifications: Keys::from(&str) gives <<k, "">>, Keys::from([&str; 2]) gives <<k1, k2>>
OptionKeys == { <<W, E>>, <<WW, E>>, <<W, WW>> }
FlagKeys == OptionKeys \cup { <<H, E>> }

(* ---------------------------- Keys -------------------------------------- *)

first(keys) == keys[1]
second(keys) == keys[2]

(* ---------------------------- decode functions -------------------------- *)

\* the caller's decode functions: u32::from_str and String::from_str
Decoders == { "u32", "String" }

NoVal == [ty |-> "none", n |-> 0, s |-> <<>>]

IsDigit(c) == c \in { "0", "1", "2", "3", "4", "5", "6", "7", "8", "9" }

DigitVal(c) ==
    CASE c = "0" -> 0 [] c = "1" -> 1 [] c = "2" -> 2 [] c = "3" -> 3 [] c = "4" -> 4
      [] c = "5" -> 5 [] c = "6" -> 6 [] c = "7" -> 7 [] c = "8" -> 8 [] c = "9" -> 9

RECURSIVE ParseDigits(_)
ParseDigits(s) ==
    IF Len(s) = 0 THEN 0
    ELSE 10 * ParseDigits(SubSeq(s, 1, Len(s) - 1)) + DigitVal(s[Len(s)])

\* f(value): [ok, val, cause]
Decode(f, v) ==
    IF f = "String"
    THEN [ok |-> TRUE, val |-> [ty |-> "String", n |-> 0, s |-> v], cause |-> ""]
    ELSE IF Len(v) = 0
    THEN [ok |-> FALSE, val |-> NoVal, cause |-> "cannot parse integer from empty string"]
    ELSE IF \A i \in 1..Len(v) : IsDigit(v[i])
    THEN [ok |-> TRUE, val |-> [ty |-> "u32", n |-> ParseDigits(v), s |-> <<>>], cause |-> ""]
    ELSE [ok |-> FALSE, val |-> NoVal, cause |-> "invalid digit found in string"]

\* the caller's decode functions on raw tokens: parse_path is PathBuf::from and
\* accepts every token, parse_number accepts the text tokens u32::from_str accepts
OsDecoders == { "parse_path", "parse_number" }

\* f(value) for f: fn(&OsStr) -> Result<T, E>
DecodeOs(f, v) ==
    IF f = "parse_path"
    THEN [ok |-> TRUE, val |-> [ty |-> "PathBuf", n |-> 0, s |-> v], cause |-> ""]
    ELSE IF ~IsUtf8(v)
    THEN [ok |-> FALSE, val |-> NoVal, cause |-> "not a UTF-8 string"]
    ELSE Decode("u32", v)

(* ---------------------------- results ----------------------------------- *)

NoKeys == <<E, E>>

\* a result value; `tag` is the variant, the other fields are its payload
NoRes ==
    [tag |-> "", val |-> NoVal, keys |-> NoKeys, key |-> E, value |-> E,
     cause |-> "", list |-> <<>>, vals |-> <<>>]

OkSome(v) == [NoRes EXCEPT !.tag = "Some", !.val = v]
OkNone == [NoRes EXCEPT !.tag = "None"]
OkUnit == [NoRes EXCEPT !.tag = "Ok"]
OkVal(v) == [NoRes EXCEPT !.tag = "Value", !.val = v]
OkVec(vs) == [NoRes EXCEPT !.tag = "Vec", !.vals = vs]
Bool(b) == [NoRes EXCEPT !.tag = IF b THEN "true" ELSE "false"]
NonUtf8Argument == [NoRes EXCEPT !.tag = "NonUtf8Argument"]
MissingOption(keys) == [NoRes EXCEPT !.tag = "MissingOption", !.keys = keys]
OptionWithoutAValue(key) == [NoRes EXCEPT !.tag = "OptionWithoutAValue", !.key = key]
Utf8ArgumentParsingFailed(value, cause) ==
    [NoRes EXCEPT !.tag = "Utf8ArgumentParsingFailed", !.value = value, !.cause = cause]
UnusedArgsLeft(list) == [NoRes EXCEPT !.tag = "UnusedArgsLeft", !.list = list]

ArgumentParsingFailed(cause) == [NoRes EXCEPT !.tag = "ArgumentParsingFailed", !.cause = cause]

\* Ok(Vec<String>) of free, Ok(Vec<OsString>) of free_os
OkArgs(list) == [NoRes EXCEPT !.tag = "Args", !.list = list]

\* a failed debug_assert!: the call panics with this message and does not return
Panic(msg) == [NoRes EXCEPT !.tag = "panic", !.cause = msg]

ErrTags ==
    { "NonUtf8Argument", "MissingOption", "OptionWithoutAValue",
      "Utf8ArgumentParsingFailed", "ArgumentParsingFailed", "UnusedArgsLeft" }

IsErr(r) == r.tag \in ErrTags

(* ---------------------------- helpers of lib.rs ------------------------ *)

\* os_to_str: Ok(text) for valid UTF-8, Err(NonUtf8Argument) otherwise
os_to_str(text) ==
    IF IsUtf8(text) THEN [ok |-> TRUE, text |-> text] ELSE [ok |-> FALSE, text |-> E]

\* a variant of ends_with that accepts any closing quote
ends_with_any_quote(text, c) ==
    IF Len(text) = 0 THEN FALSE ELSE text[Len(text)] \in { "'", "\"" }

\* ends_with(text, c): the last byte of a non-empty text is c
ends_with(text, c) ==
    IF Len(text) = 0 THEN FALSE ELSE text[Len(text)] = c

\* starts_with_plus_eq(text, prefix): text is UTF-8, begins with prefix and the next byte is '='
starts_with_plus_eq(text, prefix) ==
    /\ IsUtf8(text)
    /\ StartsWith(text, prefix)
    /\ HasByte(text, Len(prefix))
    /\ Get(text, Len(prefix)) = Eq

NotFound == [found |-> FALSE, idx |-> 0, key |-> E]
Found(i, key) == [found |-> TRUE, idx |-> i, key |-> key]

\* a variant of index_of that scans by position: the first token equal to either key
index_of_by_position(a, keys) ==
    LET p == Position([i \in 1..Len(a) |-> a[i] # E /\ (a[i] = first(keys) \/ a[i] = second(keys))])
    IN  IF p > 0 THEN Found(p, a[p]) ELSE NotFound

\* index_of: for each non-empty key in order, the first token equal to it
index_of(a, keys) ==
    LET p1 == IF first(keys) # E THEN Position([i \in 1..Len(a) |-> a[i] = first(keys)]) ELSE 0
        p2 == IF second(keys) # E THEN Position([i \in 1..Len(a) |-> a[i] = second(keys)]) ELSE 0
    IN  IF p1 > 0 THEN Found(p1, first(keys))
        ELSE IF p2 > 0 THEN Found(p2, second(keys))
        ELSE NotFound

\* index_of2: for each non-empty key in order, the first token of the shape key=...
index_of2(a, keys) ==
    LET p1 == IF first(keys) # E
              THEN Position([i \in 1..Len(a) |-> starts_with_plus_eq(a[i], first(keys))])
              ELSE 0
        p2 == IF second(keys) # E
              THEN Position([i \in 1..Len(a) |-> starts_with_plus_eq(a[i], second(keys))])
              ELSE 0
    IN  IF p1 > 0 THEN Found(p1, first(keys))
        ELSE IF p2 > 0 THEN Found(p2, second(keys))
        ELSE NotFound

(* ---------------------------- find_value -------------------------------- *)

FvNone == [tag |-> "None", value |-> E, idx |-> 0, err |-> NoRes]
FvErr(e) == [tag |-> "Err", value |-> E, idx |-> 0, err |-> e]
FvPair(kind, value, i) == [tag |-> kind, value |-> value, idx |-> i, err |-> NoRes]

\* the `--key value` branch of find_value: the token after the key, as text
two_arguments(a, i, key) ==
    IF i + 1 > Len(a) THEN FvErr(OptionWithoutAValue(key))
    ELSE LET t == os_to_str(a[i + 1])
         IN  IF t.ok THEN FvPair("TwoArguments", t.text, i) ELSE FvErr(NonUtf8Argument)

\* a variant of single_argument that keeps the closing quote in the value
single_argument_keeps_quote(a, i, key) ==
    LET value == a[i]
        start0 == Len(key)
        hasEq == HasByte(value, start0) /\ Get(value, start0) = Eq
        start1 == start0 + 1
        quoted == /\ HasByte(value, start1)
                  /\ Get(value, start1) \in { DQuote, SQuote }
        start2 == IF quoted THEN start1 + 1 ELSE start1
        closed == ends_with(Slice(value, start2, Len(value)), Get(value, start1))
    IN  IF ~IsUtf8(value) THEN FvErr(NonUtf8Argument)
        ELSE IF ~hasEq THEN FvErr(OptionWithoutAValue(key))
        ELSE IF quoted /\ ~closed THEN FvErr(OptionWithoutAValue(key))
        ELSE IF Len(value) - start2 = 0 THEN FvErr(OptionWithoutAValue(key))
        ELSE FvPair("SingleArgument", Slice(value, start2, Len(value)), i)

\* the `--key=value` branch of find_value: the value range inside the token
single_argument(a, i, key) ==
    LET value == a[i]
        end0 == Len(value)
        start0 == Len(key)
        hasEq == HasByte(value, start0) /\ Get(value, start0) = Eq
        start1 == start0 + 1
        quoted == /\ HasByte(value, start1)
                  /\ Get(value, start1) \in { DQuote, SQuote }
        c == Get(value, start1)
        start2 == IF quoted THEN start1 + 1 ELSE start1
        closed == ends_with(Slice(value, start2, Len(value)), c)
        end2 == IF quoted THEN end0 - 1 ELSE end0
    IN  IF ~IsUtf8(value) THEN FvErr(NonUtf8Argument)
        ELSE IF ~hasEq THEN FvErr(OptionWithoutAValue(key))
        ELSE IF quoted /\ ~closed THEN FvErr(OptionWithoutAValue(key))
        ELSE IF end2 - start2 = 0 THEN FvErr(OptionWithoutAValue(key))
        ELSE IF Len(Slice(value, start2, end2)) = 0 THEN FvErr(OptionWithoutAValue(key))
        ELSE FvPair("SingleArgument", Slice(value, start2, end2), i)

\* a variant of find_value that scans for an inline key=value first
find_value_inline_first(a, keys) ==
    LET x == index_of(a, keys)
        y == index_of2(a, keys)
    IN  IF y.found THEN single_argument(a, y.idx, y.key)
        ELSE IF x.found THEN two_arguments(a, x.idx, x.key)
        ELSE FvNone

\* find_value (eq-separator): an exact key first, an inline key=value otherwise
find_value(a, keys) ==
    LET x == index_of(a, keys)
        y == index_of2(a, keys)
    IN  IF x.found THEN two_arguments(a, x.idx, x.key)
        ELSE IF y.found THEN single_argument(a, y.idx, y.key)
        ELSE FvNone

(* ---------------------------- operations as functions ------------------- *)

\* the outcome of a call: its result, the store after it, the number of calls
\* of the decode function and the number of loop iterations
Out(res, a, calls, iters) == [res |-> res, args |-> a, calls |-> calls, iters |-> iters]

\* a variant of contains_impl that also takes a token key=... for the flag
contains_matches_prefix(a, keys) ==
    LET x == index_of(a, keys)
        y == index_of2(a, keys)
    IN  IF x.found THEN Out(Bool(TRUE), Remove(a, x.idx), 0, 0)
        ELSE IF y.found THEN Out(Bool(TRUE), Remove(a, y.idx), 0, 0)
        ELSE Out(Bool(FALSE), a, 0, 0)

\* a variant of contains_impl that removes the first token of the store, not the flag
contains_removes_head(a, keys) ==
    IF index_of(a, keys).found THEN Out(Bool(TRUE), Tail(a), 0, 0) ELSE Out(Bool(FALSE), a, 0, 0)

contains_impl(a, keys) ==
    LET x == index_of(a, keys)
    IN  IF x.found THEN Out(Bool(TRUE), Remove(a, x.idx), 0, 0)
        ELSE Out(Bool(FALSE), a, 0, 0)

\* a variant of opt_value_from_fn_impl that removes the key alone
opt_value_removes_key_only(a, keys, f) ==
    LET fv == find_value(a, keys)
        d == Decode(f, fv.value)
    IN  IF fv.tag = "Err" THEN Out(fv.err, a, 0, 0)
        ELSE IF fv.tag = "None" THEN Out(OkNone, a, 0, 0)
        ELSE IF d.ok THEN Out(OkSome(d.val), Remove(a, fv.idx), 1, 0)
        ELSE Out(Utf8ArgumentParsingFailed(fv.value, d.cause), a, 1, 0)

\* a variant of opt_value_from_fn_impl that removes the tokens before decoding
opt_value_removes_first(a, keys, f) ==
    LET fv == find_value(a, keys)
        d == Decode(f, fv.value)
        b == IF fv.tag = "TwoArguments"
             THEN Remove(Remove(a, fv.idx), fv.idx)
             ELSE Remove(a, fv.idx)
    IN  IF fv.tag = "Err" THEN Out(fv.err, a, 0, 0)
        ELSE IF fv.tag = "None" THEN Out(OkNone, a, 0, 0)
        ELSE IF d.ok THEN Out(OkSome(d.val), b, 1, 0)
        ELSE Out(Utf8ArgumentParsingFailed(fv.value, d.cause), b, 1, 0)

opt_value_from_fn_impl(a, keys, f) ==
    LET fv == find_value(a, keys)
        d == Decode(f, fv.value)
    IN  IF fv.tag = "Err" THEN Out(fv.err, a, 0, 0)
        ELSE IF fv.tag = "None" THEN Out(OkNone, a, 0, 0)
        ELSE IF d.ok
        THEN Out(OkSome(d.val),
                 IF fv.tag = "TwoArguments"
                 THEN Remove(Remove(a, fv.idx), fv.idx)
                 ELSE Remove(a, fv.idx),
                 1, 0)
        ELSE Out(Utf8ArgumentParsingFailed(fv.value, d.cause), a, 1, 0)

\* a variant of value_from_fn whose MissingOption names the first alias only
value_from_fn_first_alias(a, keys, f) ==
    LET r == opt_value_from_fn_impl(a, keys, f)
    IN  IF r.res.tag = "Some" THEN Out(OkVal(r.res.val), r.args, r.calls, 0)
        ELSE IF r.res.tag = "None" THEN Out(MissingOption(<<first(keys), E>>), r.args, r.calls, 0)
        ELSE r

value_from_fn(a, keys, f) ==
    LET r == opt_value_from_fn_impl(a, keys, f)
    IN  IF r.res.tag = "Some" THEN Out(OkVal(r.res.val), r.args, r.calls, 0)
        ELSE IF r.res.tag = "None" THEN Out(MissingOption(keys), r.args, r.calls, 0)
        ELSE r

\* a variant of the loop of values_from_fn that tries a failing extraction once more
\* before it returns the error
RECURSIVE values_loop_retries(_, _, _, _, _, _)
values_loop_retries(a, keys, f, values, calls, iters) ==
    LET r == opt_value_from_fn_impl(a, keys, f)
    IN  IF r.res.tag = "Some"
        THEN values_loop_retries(r.args, keys, f, Append(values, r.res.val),
                                 calls + r.calls, iters + 1)
        ELSE IF r.res.tag = "None"
        THEN Out(OkVec(values), r.args, calls + r.calls, iters + 1)
        ELSE Out(r.res, r.args, calls + r.calls + r.calls, iters + 2)

RECURSIVE values_loop(_, _, _, _, _, _)
values_loop(a, keys, f, values, calls, iters) ==
    LET r == opt_value_from_fn_impl(a, keys, f)
    IN  IF r.res.tag = "Some"
        THEN values_loop(r.args, keys, f, Append(values, r.res.val), calls + r.calls, iters + 1)
        ELSE IF r.res.tag = "None"
        THEN Out(OkVec(values), r.args, calls + r.calls, iters + 1)
        ELSE Out(r.res, r.args, calls + r.calls, iters + 1)

\* a variant of values_from_fn that gives the store back as it was when it fails
values_from_fn_rolls_back(a, keys, f) ==
    LET r == values_loop(a, keys, f, <<>>, 0, 0)
    IN  IF IsErr(r.res) THEN Out(r.res, a, r.calls, r.iters) ELSE r

values_from_fn(a, keys, f) == values_loop(a, keys, f, <<>>, 0, 0)

\* a variant of IsFlagLeft without the exemption of "-"
IsDashFirst(t) == IsUtf8(t) /\ StartsWith(t, <<Dash>>)

\* check_for_flags: the UTF-8 tokens that start with '-' and are not "-"
IsFlagLeft(t) == IsUtf8(t) /\ StartsWith(t, <<Dash>>) /\ t # <<Dash>>

flags_left(a) == SelectSeq(a, IsFlagLeft)

\* a variant of check_for_flags that looks at the first token only
check_first_token(a) ==
    IF Len(a) = 0 \/ ~IsFlagLeft(Head(a)) THEN OkUnit ELSE UnusedArgsLeft(<<Head(a)>>)

\* a variant of check_for_flags whose error lists every text token of the store
check_for_flags_lists_all(a) ==
    IF Len(flags_left(a)) = 0 THEN OkUnit ELSE UnusedArgsLeft(SelectSeq(a, IsUtf8))

check_for_flags(a) ==
    IF Len(flags_left(a)) = 0 THEN OkUnit ELSE UnusedArgsLeft(flags_left(a))

\* a variant of free_from_fn that takes the last token of the store, not the first
free_from_fn_takes_last(a, f) ==
    LET chk == check_for_flags(a)
        t == os_to_str(a[Len(a)])
        d == Decode(f, t.text)
    IN  IF IsErr(chk) THEN Out(chk, a, 0, 0)
        ELSE IF Len(a) = 0 THEN Out(OkNone, a, 0, 0)
        ELSE IF ~t.ok THEN Out(NonUtf8Argument, SubSeq(a, 1, Len(a) - 1), 0, 0)
        ELSE IF d.ok THEN Out(OkSome(d.val), SubSeq(a, 1, Len(a) - 1), 1, 0)
        ELSE Out(Utf8ArgumentParsingFailed(t.text, d.cause), SubSeq(a, 1, Len(a) - 1), 1, 0)

\* a variant of free_from_fn that leaves the first token in place when decoding fails
free_from_fn_keeps_head(a, f) ==
    LET chk == check_for_flags(a)
        t == os_to_str(Head(a))
        d == Decode(f, t.text)
    IN  IF IsErr(chk) THEN Out(chk, a, 0, 0)
        ELSE IF Len(a) = 0 THEN Out(OkNone, a, 0, 0)
        ELSE IF ~t.ok THEN Out(NonUtf8Argument, Tail(a), 0, 0)
        ELSE IF d.ok THEN Out(OkSome(d.val), Tail(a), 1, 0)
        ELSE Out(Utf8ArgumentParsingFailed(t.text, d.cause), a, 1, 0)

free_from_fn(a, f) ==
    LET chk == check_for_flags(a)
        t == os_to_str(Head(a))
        d == Decode(f, t.text)
    IN  IF IsErr(chk) THEN Out(chk, a, 0, 0)
        ELSE IF Len(a) = 0 THEN Out(OkNone, a, 0, 0)
        ELSE IF ~t.ok THEN Out(NonUtf8Argument, Tail(a), 0, 0)
        ELSE IF d.ok THEN Out(OkSome(d.val), Tail(a), 1, 0)
        ELSE Out(Utf8ArgumentParsingFailed(t.text, d.cause), Tail(a), 1, 0)

BinaryData == <<"b", "i", "n", "a", "r", "y", " ", "d", "a", "t", "a">>

\* a variant of finish that lists the flag-like tokens only
finish_flags_only(a) ==
    IF Len(a) # 0 THEN Out(UnusedArgsLeft(flags_left(a)), a, 0, 0) ELSE Out(OkUnit, a, 0, 0)

finish(a) ==
    IF Len(a) # 0
    THEN Out(UnusedArgsLeft([i \in 1..Len(a) |-> IF IsUtf8(a[i]) THEN a[i] ELSE BinaryData]),
             a, 0, 0)
    ELSE Out(OkUnit, a, 0, 0)

(* ---------------------------- Keys::from -------------------------------- *)

\* the key specifications a caller can write: one alias (&str) or two ([&str; 2]);
\* those of the tests invalid_flag_01..04 fail an assertion
KeyInputs ==
    { <<W>>, <<WW>>, <<W, WW>>,
      << <<"w">> >>, << <<"w">>, WW >>, <<W, W>>, <<WW, WW>> }

FlagKeyInputs == KeyInputs \cup { <<H>> }

DashDash == <<Dash, Dash>>

KeysOk(keys) == [ok |-> TRUE, keys |-> keys, msg |-> ""]
KeysPanic(keys, msg) == [ok |-> FALSE, keys |-> keys, msg |-> msg]

\* a variant of into_keys without the assertions (a build without debug assertions)
into_keys_unchecked(v) ==
    IF Len(v) = 2 THEN KeysOk(<<v[1], v[2]>>) ELSE KeysOk(<<v[1], E>>)

\* keys.into() of a build with debug assertions: From<[&'static str; 2]> and
\* From<&'static str> for Keys
into_keys(v) ==
    IF Len(v) = 2
    THEN IF ~StartsWith(v[1], <<Dash>>)
         THEN KeysPanic(<<v[1], v[2]>>, "an argument should start with '-'")
         ELSE IF StartsWith(v[1], DashDash)
         THEN KeysPanic(<<v[1], v[2]>>, "the first argument should be short")
         ELSE IF ~StartsWith(v[2], DashDash)
         THEN KeysPanic(<<v[1], v[2]>>, "the second argument should be long")
         ELSE KeysOk(<<v[1], v[2]>>)
    ELSE IF ~StartsWith(v[1], <<Dash>>)
         THEN KeysPanic(<<v[1], E>>, "an argument should start with '-'")
         ELSE KeysOk(<<v[1], E>>)

(* ---------------------------- subcommand, raw variants, free ------------ *)

\* a variant of subcommand that leaves a first token that is not text in the store
subcommand_keeps_binary(a) ==
    IF Len(a) = 0 THEN Out(OkNone, a, 0, 0)
    ELSE IF IsUtf8(Head(a)) /\ StartsWith(Head(a), <<Dash>>)
    THEN Out(OkNone, a, 0, 0)
    ELSE IF IsUtf8(Head(a))
    THEN Out(OkSome([ty |-> "String", n |-> 0, s |-> Head(a)]), Tail(a), 0, 0)
    ELSE Out(NonUtf8Argument, a, 0, 0)

\* a variant of subcommand that puts a token that is not text back at the end
subcommand_puts_back(a) ==
    IF Len(a) = 0 THEN Out(OkNone, a, 0, 0)
    ELSE IF IsUtf8(Head(a)) /\ StartsWith(Head(a), <<Dash>>)
    THEN Out(OkNone, a, 0, 0)
    ELSE IF IsUtf8(Head(a))
    THEN Out(OkSome([ty |-> "String", n |-> 0, s |-> Head(a)]), Tail(a), 0, 0)
    ELSE Out(NonUtf8Argument, Append(Tail(a), Head(a)), 0, 0)

\* a variant of subcommand that takes the token "-" as a subcommand
subcommand_takes_stdin(a) ==
    IF Len(a) = 0 THEN Out(OkNone, a, 0, 0)
    ELSE IF IsUtf8(Head(a)) /\ StartsWith(Head(a), <<Dash>>) /\ Head(a) # <<Dash>>
    THEN Out(OkNone, a, 0, 0)
    ELSE IF IsUtf8(Head(a))
    THEN Out(OkSome([ty |-> "String", n |-> 0, s |-> Head(a)]), Tail(a), 0, 0)
    ELSE Out(NonUtf8Argument, Tail(a), 0, 0)

\* subcommand: the first token, unless it is text that starts with '-'
subcommand(a) ==
    IF Len(a) = 0 THEN Out(OkNone, a, 0, 0)
    ELSE IF IsUtf8(Head(a)) /\ StartsWith(Head(a), <<Dash>>)
    THEN Out(OkNone, a, 0, 0)
    ELSE IF IsUtf8(Head(a))
    THEN Out(OkSome([ty |-> "String", n |-> 0, s |-> Head(a)]), Tail(a), 0, 0)
    ELSE Out(NonUtf8Argument, Tail(a), 0, 0)

\* a variant of opt_value_from_os_str_impl that also takes the value after key=
opt_value_from_os_str_inline(a, keys, f) ==
    LET x == index_of(a, keys)
        y == index_of2(a, keys)
        d == DecodeOs(f, a[x.idx + 1])
        v == Slice(a[y.idx], Len(y.key) + 1, Len(a[y.idx]))
    IN  IF x.found
        THEN IF x.idx + 1 > Len(a) THEN Out(OptionWithoutAValue(x.key), a, 0, 0)
             ELSE IF d.ok THEN Out(OkSome(d.val), Remove(Remove(a, x.idx), x.idx), 1, 0)
             ELSE Out(ArgumentParsingFailed(d.cause), a, 1, 0)
        ELSE IF y.found
        THEN IF DecodeOs(f, v).ok THEN Out(OkSome(DecodeOs(f, v).val), Remove(a, y.idx), 1, 0)
             ELSE Out(ArgumentParsingFailed(DecodeOs(f, v).cause), a, 1, 0)
        ELSE Out(OkNone, a, 0, 0)

\* opt_value_from_os_str_impl: the `--key value` pair only
opt_value_from_os_str_impl(a, keys, f) ==
    LET x == index_of(a, keys)
        d == DecodeOs(f, a[x.idx + 1])
    IN  IF x.found
        THEN IF x.idx + 1 > Len(a) THEN Out(OptionWithoutAValue(x.key), a, 0, 0)
             ELSE IF d.ok THEN Out(OkSome(d.val), Remove(Remove(a, x.idx), x.idx), 1, 0)
             ELSE Out(ArgumentParsingFailed(d.cause), a, 1, 0)
        ELSE Out(OkNone, a, 0, 0)

value_from_os_str(a, keys, f) ==
    LET r == opt_value_from_os_str_impl(a, keys, f)
    IN  IF r.res.tag = "Some" THEN Out(OkVal(r.res.val), r.args, r.calls, 0)
        ELSE IF r.res.tag = "None" THEN Out(MissingOption(keys), r.args, r.calls, 0)
        ELSE r

RECURSIVE values_os_loop(_, _, _, _, _, _)
values_os_loop(a, keys, f, values, calls, iters) ==
    LET r == opt_value_from_os_str_impl(a, keys, f)
    IN  IF r.res.tag = "Some"
        THEN values_os_loop(r.args, keys, f, Append(values, r.res.val), calls + r.calls, iters + 1)
        ELSE IF r.res.tag = "None"
        THEN Out(OkVec(values), r.args, calls + r.calls, iters + 1)
        ELSE Out(r.res, r.args, calls + r.calls, iters + 1)

values_from_os_str(a, keys, f) == values_os_loop(a, keys, f, <<>>, 0, 0)

free_from_os_str(a, f) ==
    LET chk == check_for_flags(a)
        d == DecodeOs(f, Head(a))
    IN  IF IsErr(chk) THEN Out(chk, a, 0, 0)
        ELSE IF Len(a) = 0 THEN Out(OkNone, a, 0, 0)
        ELSE IF d.ok THEN Out(OkSome(d.val), Tail(a), 1, 0)
        ELSE Out(ArgumentParsingFailed(d.cause), Tail(a), 1, 0)

IsNotStdin(t) == t # <<Dash>>

\* a variant of free_os that leaves the token "-" out of the list
free_os_without_stdin(a) ==
    LET chk == check_for_flags(a)
    IN  IF IsErr(chk) THEN Out(chk, a, 0, 0) ELSE Out(OkArgs(SelectSeq(a, IsNotStdin)), a, 0, 0)

free_os(a) ==
    LET chk == check_for_flags(a)
    IN  IF IsErr(chk) THEN Out(chk, a, 0, 0) ELSE Out(OkArgs(a), a, 0, 0)

free(a) ==
    LET chk == check_for_flags(a)
    IN  IF IsErr(chk) THEN Out(chk, a, 0, 0)
        ELSE IF \E i \in 1..Len(a) : ~os_to_str(a[i]).ok THEN Out(NonUtf8Argument, a, 0, 0)
        ELSE Out(OkArgs(a), a, 0, 0)

(* ---------------------------- the state machine ------------------------- *)

Call(op, keys, f, r) ==
    [op |-> op, keys |-> keys, f |-> f, pre |-> args,
     res |-> r.res, calls |-> r.calls, iters |-> r.iters]

\* Arguments::from_vec: any token list, no call made yet
Init ==
    /\ args \in ArgLists
    /\ alive = TRUE
    /\ last = [op |-> "from_vec", keys |-> NoKeys, f |-> "", pre |-> <<>>,
               res |-> NoRes, calls |-> 0, iters |-> 0]

Contains ==
    /\ alive
    /\ \E keys \in FlagKeys :
         LET r == contains_impl(args, keys)
         IN  /\ args' = r.args
             /\ last' = Call("contains", keys, "", r)
    /\ UNCHANGED alive

OptValueFromFn ==
    /\ alive
    /\ \E keys \in OptionKeys, f \in Decoders :
         LET r == opt_value_from_fn_impl(args, keys, f)
         IN  /\ args' = r.args
             /\ last' = Call("opt_value_from_fn", keys, f, r)
    /\ UNCHANGED alive

ValueFromFn ==
    /\ alive
    /\ \E keys \in OptionKeys, f \in Decoders :
         LET r == value_from_fn(args, keys, f)
         IN  /\ args' = r.args
             /\ last' = Call("value_from_fn", keys, f, r)
    /\ UNCHANGED alive

ValuesFromFn ==
    /\ alive
    /\ \E keys \in OptionKeys, f \in Decoders :
         LET r == values_from_fn(args, keys, f)
         IN  /\ args' = r.args
             /\ last' = Call("values_from_fn", keys, f, r)
    /\ UNCHANGED alive

FreeFromFn ==
    /\ alive
    /\ \E f \in Decoders :
         LET r == free_from_fn(args, f)
         IN  /\ args' = r.args
             /\ last' = Call("free_from_fn", NoKeys, f, r)
    /\ UNCHANGED alive

\* finish(self) consumes the store: no call can follow it
Finish ==
    /\ alive
    /\ LET r == finish(args)
       IN  /\ args' = r.args
           /\ last' = Call("finish", NoKeys, "", r)
    /\ alive' = FALSE

Next ==
    \/ Contains
    \/ OptValueFromFn
    \/ ValueFromFn
    \/ ValuesFromFn
    \/ FreeFromFn
    \/ Finish

Spec == Init /\ [][Next]_vars

(* ---------------------------- the whole interface ----------------------- *)

\* the token lists of the second specification: fewer kinds of tokens, every
\* operation of the interface
ShortCore == { W, WW, <<"1">> }

ShortEdge == { H, <<"-">>, <<"a">>, <<"-", "w", "=", "1">>, <<BAD>> }

\* after tests/tests.rs: stdin, subcommand, free_04..free_06
ShortScenarios ==
    { << <<"-">>, <<"-">> >>,
      << <<"a">>, <<"a">>, WW >>,
      << <<"a">>, H, <<"a">> >>,
      << <<"-", "w", "=", "1">>, <<BAD>> >>,
      << <<"-", BAD>>, <<"1">> >>,
      << H, <<"-", BAD>>, <<"a">> >> }

ShortLists ==
    ShortScenarios \cup
    UNION { { s \in [1..n -> ShortCore \cup ShortEdge] :
                Cardinality({ i \in 1..n : s[i] \in ShortEdge }) <= 1 } : n \in 0..MaxLen }

InitAll ==
    /\ args \in ShortLists
    /\ alive = TRUE
    /\ last = [op |-> "from_vec", keys |-> NoKeys, f |-> "", pre |-> <<>>,
               res |-> NoRes, calls |-> 0, iters |-> 0]

\* a public method taking `keys: A` where A: Into<Keys>: keys.into() runs first;
\* when its assertion fails the call panics and the store is not touched
Keyed(op, v, f, r) ==
    LET k == into_keys(v)
    IN  /\ args' = IF k.ok THEN r.args ELSE args
        /\ last' = Call(op, k.keys, IF k.ok THEN f ELSE "",
                        IF k.ok THEN r ELSE Out(Panic(k.msg), args, 0, 0))
        /\ alive' = k.ok

CallContains ==
    /\ alive
    /\ \E v \in FlagKeyInputs :
         Keyed("contains", v, "", contains_impl(args, into_keys(v).keys))

CallOptValueFromFn ==
    /\ alive
    /\ \E v \in KeyInputs, f \in Decoders :
         Keyed("opt_value_from_fn", v, f, opt_value_from_fn_impl(args, into_keys(v).keys, f))

CallValueFromFn ==
    /\ alive
    /\ \E v \in KeyInputs, f \in Decoders :
         Keyed("value_from_fn", v, f, value_from_fn(args, into_keys(v).keys, f))

CallValuesFromFn ==
    /\ alive
    /\ \E v \in KeyInputs, f \in Decoders :
         Keyed("values_from_fn", v, f, values_from_fn(args, into_keys(v).keys, f))

CallOptValueFromOsStr ==
    /\ alive
    /\ \E v \in KeyInputs, f \in OsDecoders :
         Keyed("opt_value_from_os_str", v, f,
               opt_value_from_os_str_impl(args, into_keys(v).keys, f))

CallValueFromOsStr ==
    /\ alive
    /\ \E v \in KeyInputs, f \in OsDecoders :
         Keyed("value_from_os_str", v, f, value_from_os_str(args, into_keys(v).keys, f))

CallValuesFromOsStr ==
    /\ alive
    /\ \E v \in KeyInputs, f \in OsDecoders :
         Keyed("values_from_os_str", v, f, values_from_os_str(args, into_keys(v).keys, f))

Subcommand ==
    /\ alive
    /\ LET r == subcommand(args)
       IN  /\ args' = r.args
           /\ last' = Call("subcommand", NoKeys, "", r)
    /\ UNCHANGED alive

FreeFromOsStr ==
    /\ alive
    /\ \E f \in OsDecoders :
         LET r == free_from_os_str(args, f)
         IN  /\ args' = r.args
             /\ last' = Call("free_from_os_str", NoKeys, f, r)
    /\ UNCHANGED alive

\* free(self) and free_os(self) consume the store: no call can follow them
Free ==
    /\ alive
    /\ LET r == free(args)
       IN  /\ args' = r.args
           /\ last' = Call("free", NoKeys, "", r)
    /\ alive' = FALSE

FreeOs ==
    /\ alive
    /\ LET r == free_os(args)
       IN  /\ args' = r.args
           /\ last' = Call("free_os", NoKeys, "", r)
    /\ alive' = FALSE

NextAll ==
    \/ CallContains
    \/ CallOptValueFromFn
    \/ CallValueFromFn
    \/ CallValuesFromFn
    \/ CallOptValueFromOsStr
    \/ CallValueFromOsStr
    \/ CallValuesFromOsStr
    \/ Subcommand
    \/ FreeFromFn
    \/ FreeFromOsStr
    \/ Free
    \/ FreeOs
    \/ Finish

SpecAll == InitAll /\ [][NextAll]_vars

(* ---------------------------- vocabulary of the claims ------------------ *)

\* the aliases of a key specification: one for Keys::from(&str), two for [&str; 2]
Aliases(keys) == { k \in { keys[1], keys[2] } : k # E }

\* the positions of the tokens of L equal to k
Occurrences(L, k) == { i \in 1..Len(L) : L[i] = k }

\* the positions of the tokens of L equal to an alias
AliasOccurrences(L, keys) == { i \in 1..Len(L) : L[i] \in Aliases(keys) }

Min(S) == CHOOSE i \in S : \A j \in S : i <= j

\* the occurrence the claims select: the first of the primary alias if there
\* is one, the first of the secondary alias otherwise (0: no alias occurs)
KeyAt(L, keys) ==
    IF Occurrences(L, keys[1]) # {} THEN Min(Occurrences(L, keys[1]))
    ELSE IF keys[2] # E /\ Occurrences(L, keys[2]) # {} THEN Min(Occurrences(L, keys[2]))
    ELSE 0

\* M is L without the n tokens at positions i .. i+n-1, every other token in place
Without(M, L, i, n) ==
    /\ Len(M) = Len(L) - n
    /\ \A j \in 1..(i - 1) : M[j] = L[j]
    /\ \A j \in i..Len(M) : M[j] = L[j + n]

(* ---------------------------- C1 ---------------------------------------- *)

\* C1: contains returns true iff the store holds a token equal to an alias; when
\* true it removes exactly one token, the first occurrence of the primary alias
\* if it occurs, otherwise the first occurrence of the secondary alias, every
\* other token staying in place and in order; when false the store is unchanged.
C1_Contains ==
    last.op = "contains" =>
        LET L == last.pre
            present == AliasOccurrences(L, last.keys) # {}
        IN  /\ last.res \in { Bool(TRUE), Bool(FALSE) }
            /\ (last.res = Bool(TRUE)) <=> present
            /\ present => Without(args, L, KeyAt(L, last.keys), 1)
            /\ ~present => args = L

\* the secondary alias stands before the primary one, which is the token removed
C1_Witness ==
    /\ last.op = "contains"
    /\ last.res = Bool(TRUE)
    /\ last.keys = <<W, WW>>
    /\ Len(last.pre) = 3
    /\ last.pre[1] = WW
    /\ last.pre[3] = W
    /\ args = <<WW, last.pre[2]>>

(* ---------------------------- C2 ---------------------------------------- *)

\* two consecutive contains calls with the same key specification
TwoContains ==
    /\ last.op = "contains"
    /\ last'.op = "contains"
    /\ last'.keys = last.keys
    /\ last'.pre = args

\* C2 (as stated): two consecutive contains calls with the same key specification
\* return true at most once, unless one and the same alias occurs at least twice
\* in the store.
C2_Original ==
    [][TwoContains =>
        /\ last.res = Bool(FALSE) => last'.res = Bool(FALSE)
        /\ (last.res = Bool(TRUE) /\ last'.res = Bool(TRUE)) =>
              \E k \in Aliases(last.keys) : Cardinality(Occurrences(last.pre, k)) >= 2]_vars

\* C2 (amended): two consecutive contains calls with the same key specification
\* return true at most once (true then false, or false then false), unless the
\* store holds at least two tokens equal to an alias: the same alias twice or
\* each of the two aliases once.
C2_Amended ==
    [][TwoContains =>
        /\ last.res = Bool(FALSE) => last'.res = Bool(FALSE)
        /\ (last.res = Bool(TRUE) /\ last'.res = Bool(TRUE)) =>
              Cardinality(AliasOccurrences(last.pre, last.keys)) >= 2
        /\ (last.res = Bool(TRUE) /\ Cardinality(AliasOccurrences(last.pre, last.keys)) < 2) =>
              last'.res = Bool(FALSE)]_vars

\* contains has returned true on a store with a single alias token, and the store
\* is still usable: the second call is the one that must return false
C2_Witness ==
    /\ last.op = "contains"
    /\ last.res = Bool(TRUE)
    /\ alive
    /\ Cardinality(AliasOccurrences(last.pre, last.keys)) = 1
    /\ Len(args) >= 1
    /\ contains_impl(args, last.keys).res = Bool(FALSE)

(* ---------------------------- C3 ---------------------------------------- *)

\* C3: two-token form of opt_value_from_fn. When a token equal to an alias
\* exists (the first occurrence of the primary alias if any, otherwise the first
\* occurrence of the secondary alias) and a token v follows it, v is the value
\* whatever it looks like; if decode(v) succeeds the call returns that value and
\* removes exactly the key and the value, all other tokens staying in order.
C3_TwoTokenForm ==
    last.op = "opt_value_from_fn" =>
        LET L == last.pre
            i == KeyAt(L, last.keys)
        IN  (i > 0 /\ i < Len(L) /\ IsUtf8(L[i + 1]) /\ Decode(last.f, L[i + 1]).ok) =>
                /\ last.res = OkSome(Decode(last.f, L[i + 1]).val)
                /\ Without(args, L, i, 2)

\* the value taken is itself an alias, and a token before the pair survives
C3_Witness ==
    /\ last.op = "opt_value_from_fn"
    /\ last.res.tag = "Some"
    /\ last.keys = <<W, WW>>
    /\ Len(last.pre) = 3
    /\ last.pre[2] = W
    /\ last.pre[3] = WW
    /\ last.res.val.s = WW
    /\ args = <<last.pre[1]>>

(* ---------------------------- C4 ---------------------------------------- *)

\* t is a token of the option: an alias, or a text token alias=...
OptionToken(t, keys) ==
    \/ t \in Aliases(keys)
    \/ /\ IsUtf8(t)
       /\ \E k \in Aliases(keys) : Len(t) > Len(k) /\ SubSeq(t, 1, Len(k) + 1) = k \o <<Eq>>

\* C4: when opt_value_from_fn or value_from_fn returns an error for an option
\* that is present (no value after the key, a value that is not text, an empty
\* or badly quoted inline value, a failing decode), the store is the same as
\* before the call, and finish() then fails with the option's tokens listed.
C4_NonRemovalOnFailure ==
    (last.op \in { "opt_value_from_fn", "value_from_fn" }
       /\ IsErr(last.res) /\ last.res.tag # "MissingOption") =>
        /\ last.res.tag \in
              { "OptionWithoutAValue", "NonUtf8Argument", "Utf8ArgumentParsingFailed" }
        /\ args = last.pre
        /\ \E i \in 1..Len(args) : OptionToken(args[i], last.keys)
        /\ finish(args).res.tag = "UnusedArgsLeft"
        /\ Len(finish(args).res.list) = Len(last.pre)
        /\ \A i \in 1..Len(last.pre) :
              OptionToken(last.pre[i], last.keys) => finish(args).res.list[i] = last.pre[i]

\* the decode function has failed on the value of a two-token option
C4_Witness ==
    /\ last.op = "opt_value_from_fn"
    /\ last.res.tag = "Utf8ArgumentParsingFailed"
    /\ last.calls = 1
    /\ Len(last.pre) >= 2
    /\ last.pre[1] = WW
    /\ args = last.pre
    /\ alive

(* ---------------------------- inline tokens in the claims --------------- *)

\* the bytes of t begin with k and '='
ByteShape(t, k) == Len(t) > Len(k) /\ SubSeq(t, 1, Len(k) + 1) = k \o <<Eq>>

\* t is a text token k=...
InlineTok(t, k) == IsUtf8(t) /\ ByteShape(t, k)

InlineOccurrences(L, k) == { i \in 1..Len(L) : InlineTok(L[i], k) }

\* the alias of the inline token the call selects: the primary one if a token
\* primary=... exists, the secondary one otherwise
InlineKey(L, keys) ==
    IF InlineOccurrences(L, keys[1]) # {} THEN keys[1] ELSE keys[2]

\* the inline token the call selects (0: none): the first one of InlineKey
InlineAt(L, keys) ==
    IF InlineKey(L, keys) # E /\ InlineOccurrences(L, InlineKey(L, keys)) # {}
    THEN Min(InlineOccurrences(L, InlineKey(L, keys)))
    ELSE 0

\* what follows k= in the token t
Rest(t, k) == SubSeq(t, Len(k) + 2, Len(t))

Quotes == { SQuote, DQuote }

\* r is q v q with v not empty
QuotedBy(r, q) == Len(r) >= 3 /\ r[1] = q /\ r[Len(r)] = q
Inner(r) == SubSeq(r, 2, Len(r) - 1)

\* the call on the inline token at i behaved as decode(v) says: the value and
\* the removal of that one token, or the decode error and no removal
YieldsDecodeOf(v, i) ==
    LET d == Decode(last.f, v)
    IN  IF d.ok
        THEN last.res = OkSome(d.val) /\ Without(args, last.pre, i, 1)
        ELSE last.res = Utf8ArgumentParsingFailed(v, d.cause) /\ args = last.pre

\* the last call was opt_value_from_fn and it took the inline form
InlineCase ==
    /\ last.op = "opt_value_from_fn"
    /\ AliasOccurrences(last.pre, last.keys) = {}
    /\ InlineAt(last.pre, last.keys) > 0

SelectedRest ==
    Rest(last.pre[InlineAt(last.pre, last.keys)], InlineKey(last.pre, last.keys))

(* ---------------------------- C5 ---------------------------------------- *)

\* C5 (as stated): inline form of opt_value_from_fn. For every alias k and every
\* non-empty value v, when no token equals an alias, the tokens k=v, k='v' and
\* k="v" all yield decode(v); on decode success exactly that one token is
\* removed and all other tokens stay unchanged.
C5_Original ==
    InlineCase =>
        LET i == InlineAt(last.pre, last.keys)
            r == SelectedRest
        IN  /\ Len(r) > 0 => YieldsDecodeOf(r, i)
            /\ QuotedBy(r, SQuote) => YieldsDecodeOf(Inner(r), i)
            /\ QuotedBy(r, DQuote) => YieldsDecodeOf(Inner(r), i)

\* C5 (amended): as C5, the unquoted token k=v only for a value v that does not
\* begin with a quote character (' or "); k='v' and k="v" for every non-empty v.
C5_Amended ==
    InlineCase =>
        LET i == InlineAt(last.pre, last.keys)
            r == SelectedRest
        IN  /\ (Len(r) > 0 /\ r[1] \notin Quotes) => YieldsDecodeOf(r, i)
            /\ QuotedBy(r, SQuote) => YieldsDecodeOf(Inner(r), i)
            /\ QuotedBy(r, DQuote) => YieldsDecodeOf(Inner(r), i)

\* a quoted inline token has been decoded and removed, the token after it stays
C5_Witness ==
    /\ InlineCase
    /\ last.res.tag = "Some"
    /\ QuotedBy(SelectedRest, SQuote)
    /\ Len(last.pre) = 3
    /\ InlineAt(last.pre, last.keys) = 2
    /\ args = <<last.pre[1], last.pre[3]>>

(* ---------------------------- C6 ---------------------------------------- *)

\* nothing after k=, an opening quote whose remainder does not end with the
\* same quote, or an empty quoted pair
Malformed(r) ==
    \/ Len(r) = 0
    \/ Len(r) >= 1 /\ r[1] \in Quotes /\ (Len(r) = 1 \/ r[Len(r)] # r[1])
    \/ Len(r) = 2 /\ r[1] \in Quotes /\ r[2] = r[1]

\* C6: inline error cases. When the selected inline token is k= followed by
\* nothing, by an opening quote whose remainder does not end with the same
\* quote, or by an empty quoted pair, opt_value_from_fn returns
\* OptionWithoutAValue naming k, never calls the decode function and removes
\* nothing.
C6_InlineErrors ==
    (InlineCase /\ Malformed(SelectedRest)) =>
        /\ last.res = OptionWithoutAValue(InlineKey(last.pre, last.keys))
        /\ last.calls = 0
        /\ args = last.pre

\* the token -w='1" (a closing quote that is not the opening one) was selected
C6_Witness ==
    /\ InlineCase
    /\ SelectedRest = <<SQuote, "1", DQuote>>
    /\ last.res.tag = "OptionWithoutAValue"
    /\ last.res.key = W
    /\ Len(args) >= 2

(* ---------------------------- C7 ---------------------------------------- *)

\* C7: opt_value_from_fn returns Ok(None) and leaves the store unchanged iff no
\* token equals an alias and no token has the shape alias immediately followed
\* by '='; a token where another character follows the alias is never matched.
C7_NotFoundIff ==
    last.op = "opt_value_from_fn" =>
        ((last.res = OkNone /\ args = last.pre)
            <=> /\ AliasOccurrences(last.pre, last.keys) = {}
                /\ \A i \in 1..Len(last.pre) :
                      \A k \in Aliases(last.keys) : ~ByteShape(last.pre[i], k))

(* ---------------------------- C8 ---------------------------------------- *)

\* C8: value_from_fn returns MissingOption carrying the key specification passed
\* exactly when opt_value_from_fn would return Ok(None), the store unchanged;
\* otherwise it returns the value or the error of opt_value_from_fn, with the
\* same effect on the store.
C8_RequiredVariant ==
    last.op = "value_from_fn" =>
        LET o == opt_value_from_fn_impl(last.pre, last.keys, last.f)
        IN  /\ (last.res.tag = "MissingOption") <=> (o.res = OkNone)
            /\ o.res = OkNone => (last.res = MissingOption(last.keys) /\ args = last.pre)
            /\ o.res.tag = "Some" => (last.res = OkVal(o.res.val) /\ args = o.args)
            /\ IsErr(o.res) => (last.res = o.res /\ args = o.args)
            /\ last.calls = o.calls

\* the option with two aliases is missing from a store that holds other tokens
C8_Witness ==
    /\ last.op = "value_from_fn"
    /\ last.res.tag = "MissingOption"
    /\ last.res.keys = <<W, WW>>
    /\ Len(last.pre) >= 2
    /\ args = last.pre

(* ---------------------------- C9 ---------------------------------------- *)

\* the value of the inline token t of alias k, its quote pair stripped
InlineValue(t, k) ==
    IF QuotedBy(Rest(t, k), SQuote) \/ QuotedBy(Rest(t, k), DQuote)
    THEN Inner(Rest(t, k))
    ELSE Rest(t, k)

\* the values of the occurrences of the option from position i on, in the
\* order of the token list: the token after an alias, the value in alias=value
RECURSIVE LeftToRight(_, _, _)
LeftToRight(L, keys, i) ==
    IF i > Len(L) THEN <<>>
    ELSE IF L[i] \in Aliases(keys) /\ i < Len(L)
    THEN <<L[i + 1]>> \o LeftToRight(L, keys, i + 2)
    ELSE IF \E k \in Aliases(keys) : InlineTok(L[i], k)
    THEN <<InlineValue(L[i], CHOOSE k \in Aliases(keys) : InlineTok(L[i], k))>>
            \o LeftToRight(L, keys, i + 1)
    ELSE LeftToRight(L, keys, i + 1)

\* C9: values_from_fn, when every value decodes, returns one value per
\* occurrence of the option (either alias, two-token or inline form) in the
\* left-to-right order of the occurrences in the token list, and an empty list
\* when the option does not occur.
C9_LeftToRightOrder ==
    (last.op = "values_from_fn" /\ last.res.tag = "Vec") =>
        LET vs == LeftToRight(last.pre, last.keys, 1)
        IN  /\ Len(last.res.vals) = Len(vs)
            /\ \A j \in 1..Len(vs) : last.res.vals[j] = Decode(last.f, vs[j]).val

(* ---------------------------- C10 --------------------------------------- *)

\* a text token other than "-" that starts with a dash
FlagLike(t) == IsUtf8(t) /\ Len(t) >= 2 /\ t[1] = Dash

\* C10: free_from_fn first checks the whole store for flag residue: if any
\* remaining text token other than "-" starts with a dash, at any position, it
\* returns UnusedArgsLeft and removes no token, even when the first token is a
\* valid positional value.
C10_FlagResidueFirst ==
    (last.op = "free_from_fn" /\ \E i \in 1..Len(last.pre) : FlagLike(last.pre[i])) =>
        /\ last.res.tag = "UnusedArgsLeft"
        /\ last.calls = 0
        /\ args = last.pre

\* the first token is a number the decode function accepts, the flag is last
C10_Witness ==
    /\ last.op = "free_from_fn"
    /\ last.f = "u32"
    /\ Len(last.pre) = 3
    /\ last.pre[1] = <<"1">>
    /\ ~FlagLike(last.pre[2])
    /\ FlagLike(last.pre[3])
    /\ last.res.tag = "UnusedArgsLeft"
    /\ args = last.pre

(* ---------------------------- C11 --------------------------------------- *)

\* C11: when free_from_fn passes the flag-residue check on a non-empty store
\* and the decode function fails on the first token, it returns
\* Utf8ArgumentParsingFailed with that token's text and the cause, and the
\* first token is removed all the same (the store is the previous store
\* without its head); the option path, given the same text as the value of an
\* option, removes nothing.
C11_FreeDecodeFailure ==
    (/\ last.op = "free_from_fn"
     /\ Len(last.pre) > 0
     /\ \A i \in 1..Len(last.pre) : ~FlagLike(last.pre[i])
     /\ IsUtf8(Head(last.pre))
     /\ ~Decode(last.f, Head(last.pre)).ok) =>
        LET v == Head(last.pre)
            opt == opt_value_from_fn_impl(<<W, v>>, <<W, E>>, last.f)
        IN  /\ last.res = Utf8ArgumentParsingFailed(v, Decode(last.f, v).cause)
            /\ last.calls = 1
            /\ args = Tail(last.pre)
            /\ opt.res = last.res
            /\ opt.args = <<W, v>>

\* the token "a" was given to u32::from_str; the tokens after it are the store
C11_Witness ==
    /\ last.op = "free_from_fn"
    /\ last.f = "u32"
    /\ Len(last.pre) = 3
    /\ Head(last.pre) = <<"a">>
    /\ last.res = Utf8ArgumentParsingFailed(<<"a">>, "invalid digit found in string")
    /\ args = <<last.pre[2], last.pre[3]>>
    /\ alive

(* ---------------------------- C14 --------------------------------------- *)

\* C14: finish returns Ok iff the store is completely empty; otherwise it
\* returns UnusedArgsLeft whose list has exactly one entry per remaining token,
\* in store order, flag-like or not (the length of the list is the length of
\* the store), with "binary data" in the place of each token that is not text.
C14_Finish ==
    last.op = "finish" =>
        LET L == last.pre
        IN  /\ (last.res = OkUnit) <=> (Len(L) = 0)
            /\ Len(L) > 0 =>
                 /\ last.res.tag = "UnusedArgsLeft"
                 /\ Len(last.res.list) = Len(L)
                 /\ \A i \in 1..Len(L) :
                       last.res.list[i] = IF IsUtf8(L[i]) THEN L[i] ELSE BinaryData
            /\ args = L
            /\ ~alive

\* a store with a flag, a token that is not text and a plain value was finished
C14_Witness ==
    /\ last.op = "finish"
    /\ Len(last.pre) = 3
    /\ FlagLike(last.pre[1])
    /\ ~IsUtf8(last.pre[2])
    /\ last.pre[3] = <<"1">>
    /\ last.res = UnusedArgsLeft(<<last.pre[1], BinaryData, <<"1">>>>)

(* ---------------------------- C19 --------------------------------------- *)

\* the outcome of the two-token form on the key token at position i of L
TwoTokenOutcome(L, i) ==
    IF i = Len(L)
    THEN last.res = OptionWithoutAValue(L[i]) /\ last.calls = 0 /\ args = L
    ELSE IF ~IsUtf8(L[i + 1])
    THEN last.res = NonUtf8Argument /\ last.calls = 0 /\ args = L
    ELSE IF Decode(last.f, L[i + 1]).ok
    THEN last.res = OkSome(Decode(last.f, L[i + 1]).val) /\ Without(args, L, i, 2)
    ELSE /\ last.res = Utf8ArgumentParsingFailed(L[i + 1], Decode(last.f, L[i + 1]).cause)
         /\ args = L

\* the call took an inline token: it removed exactly one token, or it failed
\* on the value written in a token alias=...
TookInline ==
    \/ last.res.tag = "Some" /\ Len(args) = Len(last.pre) - 1
    \/ /\ last.res.tag = "Utf8ArgumentParsingFailed"
       /\ \E i \in 1..Len(last.pre) : \E k \in Aliases(last.keys) :
             /\ InlineTok(last.pre[i], k)
             /\ last.res.value = InlineValue(last.pre[i], k)
             /\ \A j \in 1..(Len(last.pre) - 1) :
                   ~(last.pre[j] \in Aliases(last.keys) /\ last.pre[j + 1] = last.res.value)

\* C19: search precedence in opt_value_from_fn. If any token is exactly equal
\* to either alias, the call uses the two-token form on that token and never
\* examines inline alias=value tokens, even when an inline token of the same
\* option stands earlier in the store or when the exact token is last and so
\* yields OptionWithoutAValue; the inline scan runs only when no token equals
\* the primary or the secondary alias.
C19_SearchPrecedence ==
    last.op = "opt_value_from_fn" =>
        /\ AliasOccurrences(last.pre, last.keys) # {} =>
              TwoTokenOutcome(last.pre, KeyAt(last.pre, last.keys))
        /\ TookInline => AliasOccurrences(last.pre, last.keys) = {}

\* an inline token of the option is first, the exact alias is the last token
C19_Witness ==
    /\ last.op = "opt_value_from_fn"
    /\ last.keys = <<W, WW>>
    /\ Len(last.pre) = 3
    /\ InlineTok(last.pre[1], W)
    /\ last.pre[3] = WW
    /\ last.res = OptionWithoutAValue(WW)
    /\ args = last.pre

(* ---------------------------- C12 --------------------------------------- *)

\* the call made in this step returned the whole store before it, in order
ReturnsWholeStore ==
    /\ (last'.res.tag = "Args") <=> (\A i \in 1..Len(args) : ~FlagLike(args[i]))
    /\ last'.res.tag = "Args" => last'.res.list = args
    /\ last'.res.tag # "Args" => last'.res.tag = "UnusedArgsLeft"

\* C12: free_os (and free, when all tokens are valid text) succeeds iff the
\* flag-residue check passes, and then returns exactly the remaining tokens of
\* the store, all of them and in their original relative order, the token "-"
\* included; so after contains removed a flag, the result is the list before
\* contains without that flag, wherever the flag stood.
C12_FreeAll ==
    [][/\ last'.op = "free_os" => ReturnsWholeStore
       /\ (last'.op = "free" /\ \A i \in 1..Len(args) : IsUtf8(args[i])) => ReturnsWholeStore
       /\ (/\ last.op = "contains"
           /\ last.res = Bool(TRUE)
           /\ last'.op \in { "free", "free_os" }
           /\ last'.res.tag = "Args") =>
              Without(last'.res.list, last.pre, KeyAt(last.pre, last.keys), 1)]_vars

\* free_os has returned a store that holds "-" between two other tokens
C12_Witness ==
    /\ last.op = "free_os"
    /\ Len(last.pre) = 3
    /\ last.pre[2] = <<Dash>>
    /\ last.res = OkArgs(last.pre)
    /\ ~alive

(* ---------------------------- C13 --------------------------------------- *)

\* the store is not empty and every token left is "-"
OnlyStdinLeft(L) == Len(L) > 0 /\ \A i \in 1..Len(L) : L[i] = <<Dash>>

\* C13 (as stated): a remaining token that is exactly "-" never causes
\* UnusedArgsLeft: on a store whose only leftover tokens are "-" tokens, none of
\* free, free_os, free_from_fn, finish fails with UnusedArgsLeft.
C13_Original ==
    (last.op \in { "free", "free_os", "free_from_fn", "finish" } /\ OnlyStdinLeft(last.pre)) =>
        last.res.tag # "UnusedArgsLeft"

\* C13 (amended): on a store whose only leftover tokens are "-" tokens, none of
\* free, free_os, free_from_fn fails with UnusedArgsLeft; finish fails with
\* UnusedArgsLeft listing them, as it does on every store that is not empty.
C13_Amended ==
    /\ (last.op \in { "free", "free_os", "free_from_fn" } /\ OnlyStdinLeft(last.pre)) =>
          last.res.tag # "UnusedArgsLeft"
    /\ (last.op = "finish" /\ OnlyStdinLeft(last.pre)) => last.res = UnusedArgsLeft(last.pre)

\* free has returned a store of two "-" tokens
C13_Witness ==
    /\ last.op = "free"
    /\ last.pre = << <<Dash>>, <<Dash>> >>
    /\ last.res = OkArgs(last.pre)

(* ---------------------------- C15 --------------------------------------- *)

\* C15: subcommand removes and returns the first token iff the store is not
\* empty and its first token is text that does not start with a dash; it
\* returns None and leaves the store unchanged when the store is empty or the
\* first token is text that starts with a dash (the token "-" included); hence
\* successive calls return the leading non-flag tokens in order, and None from
\* the first flag-like token on.
C15_Subcommand ==
    last.op = "subcommand" =>
        LET L == last.pre
            taken == Len(L) > 0 /\ IsUtf8(L[1]) /\ (Len(L[1]) = 0 \/ L[1][1] # Dash)
            refused == Len(L) = 0 \/ (IsUtf8(L[1]) /\ Len(L[1]) > 0 /\ L[1][1] = Dash)
        IN  /\ taken <=> (last.res.tag = "Some" /\ last.res.val.s = L[1] /\ args = Tail(L))
            /\ last.res.tag = "Some" => taken
            /\ refused => (last.res = OkNone /\ args = L)
            /\ last.res = OkNone => subcommand(args) = Out(OkNone, args, 0, 0)
            /\ (taken /\ Len(L) >= 2 /\ IsUtf8(L[2]) /\ L[2] # E /\ L[2][1] # Dash) =>
                  subcommand(args).res.val.s = L[2]

\* the first of two leading plain tokens was returned, a flag is third
C15_Witness ==
    /\ last.op = "subcommand"
    /\ last.pre = << <<"a">>, <<"a">>, WW >>
    /\ last.res = OkSome([ty |-> "String", n |-> 0, s |-> <<"a">>])
    /\ args = << <<"a">>, WW >>
    /\ subcommand(<<WW>>).res = OkNone

(* ---------------------------- C16 --------------------------------------- *)

\* C16: the raw variant opt_value_from_os_str supports the two-token form
\* only. It matches only a token exactly equal to an alias (removing the key
\* and the token after it when decoding succeeds, nothing when the value is
\* missing or decoding fails); on a store where the option appears only inline
\* (alias=value) it returns Ok(None) and leaves the store unchanged, so that
\* value_from_os_str reports MissingOption.
C16_RawTwoTokenOnly ==
    LET L == last.pre
        i == KeyAt(L, last.keys)
        d == DecodeOs(last.f, L[i + 1])
    IN  /\ (last.op = "opt_value_from_os_str" /\ last.res.tag # "panic") =>
              /\ i = 0 => (last.res = OkNone /\ args = L /\ last.calls = 0)
              /\ (i > 0 /\ i = Len(L)) =>
                    (last.res = OptionWithoutAValue(L[i]) /\ args = L /\ last.calls = 0)
              /\ (i > 0 /\ i < Len(L) /\ d.ok) =>
                    (last.res = OkSome(d.val) /\ Without(args, L, i, 2))
              /\ (i > 0 /\ i < Len(L) /\ ~d.ok) =>
                    (last.res = ArgumentParsingFailed(d.cause) /\ args = L)
        /\ (last.op = "value_from_os_str" /\ last.res.tag # "panic" /\ i = 0) =>
              (last.res = MissingOption(last.keys) /\ args = L)

\* the option is in the store in the inline form only, and was not found
C16_Witness ==
    /\ last.op = "opt_value_from_os_str"
    /\ last.keys = <<W, WW>>
    /\ Len(last.pre) = 2
    /\ InlineTok(last.pre[2], W)
    /\ AliasOccurrences(last.pre, last.keys) = {}
    /\ last.res = OkNone
    /\ args = last.pre
    /\ value_from_os_str(args, last.keys, last.f).res = MissingOption(last.keys)

(* ---------------------------- C17 --------------------------------------- *)

\* the operations that take a key specification
KeyedOps ==
    { "contains", "opt_value_from_fn", "value_from_fn", "values_from_fn",
      "opt_value_from_os_str", "value_from_os_str", "values_from_os_str" }

BeginsDoubleDash(k) == Len(k) >= 2 /\ k[1] = Dash /\ k[2] = Dash
BeginsSingleDash(k) == Len(k) >= 1 /\ k[1] = Dash /\ ~BeginsDoubleDash(k)

\* the call panicked in the conversion of its key specification: no token was
\* examined or removed
AssertionFailed == last.res.tag = "panic" /\ args = last.pre /\ last.calls = 0 /\ ~alive

\* C17 (as stated): for every key specification of one or two aliases passed to
\* an extraction operation, the assertion fails unless the primary alias begins
\* with a single dash and not with a double dash, and a supplied secondary
\* alias begins with a double dash; when it fails no token is examined or
\* removed.
C17_Original ==
    last.op \in KeyedOps =>
        /\ ~(/\ BeginsSingleDash(last.keys[1])
             /\ last.keys[2] # E => BeginsDoubleDash(last.keys[2])) => AssertionFailed
        /\ last.res.tag = "panic" => AssertionFailed

\* C17 (amended): the assertion fails exactly when, for a specification of two
\* aliases, the primary alias does not begin with a single dash or begins with
\* a double dash, or the secondary alias does not begin with a double dash;
\* and, for a specification of one alias, when the alias does not begin with a
\* dash (one alias may begin with a double dash). When it fails no token is
\* examined or removed.
C17_Amended ==
    last.op \in KeyedOps =>
        LET wellFormed ==
                IF last.keys[2] = E
                THEN Len(last.keys[1]) >= 1 /\ last.keys[1][1] = Dash
                ELSE BeginsSingleDash(last.keys[1]) /\ BeginsDoubleDash(last.keys[2])
        IN  /\ ~wellFormed <=> last.res.tag = "panic"
            /\ last.res.tag = "panic" => AssertionFailed

\* contains(["-w", "-w"]) on a store that holds "-w": the second alias is not long
C17_Witness ==
    /\ last.op = "contains"
    /\ last.keys = <<W, W>>
    /\ last.res = Panic("the second argument should be long")
    /\ Len(last.pre) >= 2
    /\ last.pre[1] = W
    /\ args = last.pre
    /\ ~alive

(* ---------------------------- C18 --------------------------------------- *)

\* C18: extraction calls may be made in any order. For every store, a flag key
\* specification F and an option key specification O sharing no alias,
\* contains(F) then opt_value_from_fn(O) gives the same pair of results and the
\* same final store as opt_value_from_fn(O) then contains(F).
C18_AnyOrder ==
    [][(/\ last.op = "contains"
        /\ last'.op = "opt_value_from_fn"
        /\ Aliases(last.keys) \cap Aliases(last'.keys) = {}) =>
           LET c == opt_value_from_fn_impl(last.pre, last'.keys, last'.f)
               d == contains_impl(c.args, last.keys)
           IN  /\ last'.res = c.res
               /\ last.res = d.res
               /\ args' = d.args]_vars

(* ---------------------------- C20 --------------------------------------- *)

\* M is a subsequence of L: the tokens of M are tokens of L, in the order of L
RECURSIVE IsSubseq(_, _)
IsSubseq(M, L) ==
    IF Len(M) = 0 THEN TRUE
    ELSE IF Len(L) = 0 THEN FALSE
    ELSE IF Head(M) = Head(L) THEN IsSubseq(Tail(M), Tail(L))
    ELSE IsSubseq(M, Tail(L))

LoopingOps == { "values_from_fn", "values_from_os_str" }

\* C20: over any sequence of operations the store is always a subsequence of
\* the initial token list: surviving tokens keep their content and relative
\* order, no token is inserted or altered, the length never increases, and a
\* single non-looping call removes at most two tokens. Stated for every call
\* against the store before it; a subsequence of a subsequence being one, the
\* store after any number of calls is a subsequence of the initial list.
C20_Subsequence ==
    last.op # "from_vec" =>
        /\ IsSubseq(args, last.pre)
        /\ Len(args) <= Len(last.pre)
        /\ last.op \notin LoopingOps => Len(last.pre) - Len(args) <= 2

\* a raw extraction took the key and the value that is not text; the token
\* before the pair is the store
C20_Witness ==
    /\ last.op = "opt_value_from_os_str"
    /\ Len(last.pre) = 3
    /\ last.pre[2] = WW
    /\ ~IsUtf8(last.pre[3])
    /\ args = <<last.pre[1]>>
    /\ alive

(* ---------------------------- C21 --------------------------------------- *)

\* the operations that begin with the flag-residue check
ResidueOps == { "free", "free_os", "free_from_fn", "free_from_os_str" }

\* C21: the flag-residue check (of free, free_os, free_from_fn and
\* free_from_os_str) fails iff some remaining text token starts with a dash
\* and is not exactly "-"; the UnusedArgsLeft list then holds exactly those
\* flag-like tokens in store order and no positional token, and a token that
\* is not text is never taken for a flag.
C21_FlagResidue ==
    last.op \in ResidueOps =>
        LET L == last.pre
        IN  /\ (last.res.tag = "UnusedArgsLeft") <=> (\E i \in 1..Len(L) : FlagLike(L[i]))
            /\ last.res.tag = "UnusedArgsLeft" =>
                 /\ last.res.list = SelectSeq(L, FlagLike)
                 /\ \A j \in 1..Len(last.res.list) :
                       /\ IsUtf8(last.res.list[j])
                       /\ last.res.list[j][1] = Dash
                       /\ last.res.list[j] # <<Dash>>
                 /\ args = L
                 /\ last.calls = 0

\* free on a flag, a token that is not text and begins with the byte '-', and
\* a positional token: the flag alone is listed
C21_Witness ==
    /\ last.op = "free"
    /\ last.pre = << H, <<Dash, BAD>>, <<"a">> >>
    /\ last.res = UnusedArgsLeft(<<H>>)

(* ---------------------------- C22 --------------------------------------- *)

\* every token of L is text and none is flag-like
PlainStore(L) == \A i \in 1..Len(L) : IsUtf8(L[i]) /\ ~FlagLike(L[i])

\* String::from_str, the decode function that always succeeds
Text(v) == [ty |-> "String", n |-> 0, s |-> v]

\* the step is a call of free_from_fn with the decode function that always succeeds
FreeStep == last'.op = "free_from_fn" /\ last'.f = "String"

\* C22: on a store of n text tokens none of which is flag-like, n successive
\* free_from_fn calls with a decode function that always succeeds return the
\* tokens one per call in store order, each call removing exactly the head
\* token, and every later call returns Ok(None) with the store empty; on an
\* empty store free_from_fn returns Ok(None), not an error.
C22_SuccessiveFree ==
    [][/\ (FreeStep /\ PlainStore(args) /\ Len(args) > 0) =>
             /\ last'.res = OkSome(Text(Head(args)))
             /\ args' = Tail(args)
             /\ PlainStore(args')
       /\ (FreeStep /\ Len(args) = 0) => (last'.res = OkNone /\ args' = <<>>)
       /\ (/\ FreeStep
           /\ last.op = "free_from_fn"
           /\ last.f = "String"
           /\ PlainStore(last.pre)) =>
             /\ Len(last.pre) >= 2 =>
                   /\ last.res = OkSome(Text(last.pre[1]))
                   /\ last'.res = OkSome(Text(last.pre[2]))
                   /\ Without(args', last.pre, 1, 2)
             /\ Len(last.pre) <= 1 => (last'.res = OkNone /\ args' = <<>>)]_vars

\* the first of three plain tokens was returned; the calls that follow find
\* the second, the third and then nothing
C22_Witness ==
    /\ last.op = "free_from_fn"
    /\ last.f = "String"
    /\ Len(last.pre) = 3
    /\ PlainStore(last.pre)
    /\ last.pre[1] # last.pre[3]
    /\ last.res = OkSome(Text(last.pre[1]))
    /\ args = <<last.pre[2], last.pre[3]>>
    /\ free_from_fn(<<>>, "String").res = OkNone
    /\ alive

(* ---------------------------- C23 --------------------------------------- *)

\* the store after n successful extractions of the option from L
RECURSIVE AfterMatches(_, _, _, _)
AfterMatches(L, keys, f, n) ==
    IF n = 0 THEN L ELSE AfterMatches(opt_value_from_fn_impl(L, keys, f).args, keys, f, n - 1)

\* the first n extractions of the option from L all succeed
RECURSIVE MatchesSucceed(_, _, _, _)
MatchesSucceed(L, keys, f, n) ==
    IF n = 0 THEN TRUE
    ELSE /\ opt_value_from_fn_impl(L, keys, f).res.tag = "Some"
         /\ MatchesSucceed(opt_value_from_fn_impl(L, keys, f).args, keys, f, n - 1)

\* C23: when values_from_fn fails at its k-th match (a missing value, a value
\* that is not text, a decode failure), the error is returned at once, the
\* tokens of the k-1 earlier successful matches are removed from the store and
\* their decoded values are discarded, and the tokens of the failing match
\* remain; the store is not rolled back to what it was before the call.
C23_PartialRemoval ==
    (last.op = "values_from_fn" /\ IsErr(last.res)) =>
        LET L == last.pre
            k == last.iters
        IN  /\ k >= 1
            /\ last.res.tag \in
                  { "OptionWithoutAValue", "NonUtf8Argument", "Utf8ArgumentParsingFailed" }
            /\ last.res.vals = <<>>
            /\ MatchesSucceed(L, last.keys, last.f, k - 1)
            /\ args = AfterMatches(L, last.keys, last.f, k - 1)
            /\ Len(L) - Len(args) >= k - 1
            /\ Len(L) - Len(args) <= 2 * (k - 1)
            /\ k > 1 => args # L
            /\ \E i \in 1..Len(args) : OptionToken(args[i], last.keys)
            /\ opt_value_from_fn_impl(args, last.keys, last.f).res = last.res
            /\ opt_value_from_fn_impl(args, last.keys, last.f).args = args

\* the first match -w 1 was taken, the second -w has no value: -w remains
C23_Witness ==
    /\ last.op = "values_from_fn"
    /\ last.f = "u32"
    /\ last.pre = << W, <<"1">>, W >>
    /\ last.res = OptionWithoutAValue(W)
    /\ last.iters = 2
    /\ args = <<W>>

(* ---------------------------- C24 --------------------------------------- *)

\* C24: values_from_fn and values_from_os_str always terminate: every loop
\* iteration either removes at least one token from the store or ends the loop
\* (not found, or an error), so the number of iterations is at most the length
\* of the store before the call plus one.
C24_LoopsTerminate ==
    (last.op \in LoopingOps /\ last.res.tag # "panic") =>
        /\ last.iters >= 1
        /\ last.iters <= Len(last.pre) + 1
        /\ Len(last.pre) - Len(args) >= last.iters - 1
        /\ last.res.tag = "Vec" => Len(last.res.vals) = last.iters - 1
        /\ last.res.tag = "Vec" \/ IsErr(last.res)

\* three iterations on three tokens: a pair, an inline token, then not found
C24_Witness ==
    /\ last.op = "values_from_fn"
    /\ Len(last.pre) = 3
    /\ last.iters = 3
    /\ Len(last.res.vals) = 2
    /\ args = <<>>

(* ---------------------------- C25 --------------------------------------- *)

\* no token of the store equals an alias of keys: contains(keys) returns false
Absent(keys) == AliasOccurrences(args, keys) = {}

\* C25: absence is stable. Once contains(keys) has returned false on a store,
\* every later contains(keys) with the same key specification on that store
\* returns false, whatever operations are executed in between. Stated for
\* every step: a contains that returned false leaves the store without an
\* alias; no operation brings an alias into a store that has none; and on
\* such a store contains returns false.
C25_AbsenceStable ==
    [][/\ (last'.op = "contains" /\ last'.res = Bool(FALSE)) =>
             AliasOccurrences(args', last'.keys) = {}
       /\ \A keys \in FlagKeys :
             Absent(keys) =>
                /\ Absent(keys)'
                /\ (last'.op = "contains" /\ last'.keys = keys) => last'.res = Bool(FALSE)]_vars

\* contains has returned false on a store that holds other tokens, an inline
\* token of the same key among them, and further calls can follow
C25_Witness ==
    /\ last.op = "contains"
    /\ last.keys = <<W, E>>
    /\ last.res = Bool(FALSE)
    /\ Len(args) >= 2
    /\ \E i \in 1..Len(args) : InlineTok(args[i], W)
    /\ args = last.pre
    /\ alive

(* ---------------------------- C26 --------------------------------------- *)

\* C26: when the first token of the store is not valid text, subcommand and
\* free_from_fn (after a passing flag-residue check) return NonUtf8Argument
\* but have already removed that first token from the store, whereas
\* opt_value_from_fn meeting a value that is not text after a matched key
\* returns NonUtf8Argument and removes nothing.
C26_NonTextAsymmetry ==
    LET L == last.pre
        i == KeyAt(L, last.keys)
    IN  /\ (last.op = "subcommand" /\ Len(L) > 0 /\ ~IsUtf8(L[1])) =>
              (last.res = NonUtf8Argument /\ args = Tail(L))
        /\ (/\ last.op = "free_from_fn"
            /\ Len(L) > 0
            /\ ~IsUtf8(L[1])
            /\ \A j \in 1..Len(L) : ~FlagLike(L[j])) =>
              (last.res = NonUtf8Argument /\ args = Tail(L) /\ last.calls = 0)
        /\ (/\ last.op = "opt_value_from_fn"
            /\ last.res.tag # "panic"
            /\ i > 0
            /\ i < Len(L)
            /\ ~IsUtf8(L[i + 1])) =>
              (last.res = NonUtf8Argument /\ args = L /\ last.calls = 0)

\* subcommand has removed a first token that is not text; the same token as
\* the value of an option stays in the store
C26_Witness ==
    /\ last.op = "subcommand"
    /\ Len(last.pre) = 3
    /\ ~IsUtf8(last.pre[1])
    /\ last.res = NonUtf8Argument
    /\ args = <<last.pre[2], last.pre[3]>>
    /\ opt_value_from_fn_impl(<<W, last.pre[1]>>, <<W, E>>, "String").args = <<W, last.pre[1]>>
    /\ alive

====
